---- MODULE Spec2Model ----
(***************************************************************************)
(* Scrape orchestration (ScraperManager), the extractors' per-item         *)
(* find-then-save path (RSSScraper / CheerioScraper / BaseScraper) and the *)
(* article store (Article.create on the articles table).                   *)
(*                                                                         *)
(* Every await of the JavaScript code is an interleaving point: a loop is  *)
(* suspended at the await named by its pc, and one action completes that   *)
(* awaited operation (successfully or with a rejection) and runs the       *)
(* synchronous code up to the next await.                                  *)
(***************************************************************************)
EXTENDS Integers, Sequences, FiniteSets, TLC

\* ---------------------------------------------------------------- bounds
NumSources == 2        \* sources with an initialized scraper: ids 1..NumSources
MaxCalls == 2          \* calls of scrapeAll / scrapeSelected
MaxStoreFaults == 1    \* db.query rejections injected
MaxFetchFails == 1     \* upstream fetch failures injected
MaxLen == 2            \* characters typed into the hashtag input
MaxTags == 3           \* hashtag tags in the container
MaxFetches == 3                  \* fetchHTML calls
NumArticles == 2                 \* article ids given to addTags
MaxTagList == 3                  \* length of a tagNames list
MaxAddTags == 3                  \* addTags calls
MaxCreates == 3                  \* Article.create calls on the full table
NumVersions == 2                 \* wordings of one upstream item

SourceIds == 1..NumSources
UnknownId == NumSources + 1      \* an id for which scrapers.get() is undefined
Urls == {"a", "b"}
NULL == 0                        \* SQL NULL / JavaScript null for timestamps

\* this.scrapers in iteration order (initialize(): ORDER BY name)
Scrapers == [i \in 1..NumSources |-> i]

\* createScraper: scraper_type of a source
ScraperType(s) == IF s % 2 = 1 THEN "rss" ELSE "cheerio"

\* RSSScraper.scrape fetches with parser.parseURL, CheerioScraper.scrape with
\* BaseScraper.fetchHTML, which sleeps this.delay after a successful fetch
ViaFetchHTML(s) == ScraperType(s) = "cheerio"

\* The upstream document of source s lists these URLs; URL "a" is listed by
\* every source, each wording its title/excerpt its own way.
Listing(s) == IF s % 2 = 1 THEN <<"a">> ELSE <<"a", "b">>

VARIABLES
    isRunning,     \* ScraperManager.isRunning
    runs,          \* one record per call of scrapeAll / scrapeSelected
    nextRun,       \* number of calls made + 1
    sources,       \* sources table: bookkeeping columns per source id
    articles,      \* articles table: set of rows
    nextId,        \* articles_id_seq
    article_tags,  \* article_tags table: set of <<article id, tag name>>
    scrape_logs,   \* scrape_logs table: sequence of rows
    now,           \* logical NOW()
    storeFaults,   \* db.query rejections injected so far
    fetchFails,    \* fetch failures injected so far
    articleData,   \* the articleData object an extractor builds from an item
    hashtags,      \* front end: the texts of the .hashtag-tag elements
    enabled,       \* sources table: the ids of the rows with enabled = true
    scrapeJobs,    \* admin routes: the job objects, in order of creation
    fetches,       \* BaseScraper.fetchHTML: the calls made, in order
    tagStore,      \* tags and article_tags tables as Article.addTags leaves them
    handed,        \* the articleData last handed to saveArticle, by text lengths
    articlesTable, \* articles table with every column, as Article.create leaves it
    page           \* front end: the state of the page while app.js starts up

vars == <<isRunning, runs, nextRun, sources, articles, nextId,
          article_tags, scrape_logs, now, storeFaults, fetchFails,
          articleData, hashtags, enabled, scrapeJobs,
          fetches,
          tagStore,
          handed,
          articlesTable,
          page>>

\* the scrape back end as a whole, and what lies outside the orchestration
backendVars == <<isRunning, runs, nextRun, sources, articles, nextId,
                 article_tags, scrape_logs, now, storeFaults, fetchFails>>
otherVars == <<articleData, hashtags, enabled, scrapeJobs, fetches, tagStore,
               handed, articlesTable, page>>

storeVars == <<articles, nextId, article_tags>>
mgrVars == <<isRunning, runs, nextRun>>

\* ------------------------------------------------------- upstream content
Title(u, v) == <<"title", u, v>>
Excerpt(u, v) == <<"excerpt", u, v>>
Content(u, v) == <<"content", u, v>>

\* RSSScraper.processItem / CheerioScraper.processArticleElement: articleData
\* built from an item; the Cheerio extractor passes no content (NULL).
ArticleData(s, u, v) ==
    [source_id |-> s, url |-> u, title |-> Title(u, v),
     excerpt |-> Excerpt(u, v),
     content |-> IF ScraperType(s) = "rss" THEN Content(u, v) ELSE <<>>]

\* extractTags: the items of URL "a" name a known place, the others no tag
Tags(u) == IF u = "a" THEN {"Foley"} ELSE {}

\* processArticleElement 88: title.length < 10
MinTitleLength == 10

\* a feed item or page block, in source s's wording, with the length of its
\* title (0: no title) and whether it has a link
Item(u, s, titleLen, hasLink) ==
    [url |-> u, ver |-> s, titleLen |-> titleLen, hasLink |-> hasLink]

\* The document a fetch of source s returns: its items, in source s's
\* wording.  A page (Cheerio) has, between the blocks of its listing, a block
\* with a 6-character title, a block without title and a block without link.
Document(s) ==
    LET listed == [i \in 1..Len(Listing(s)) |->
                      Item(Listing(s)[i], s, 2 * MinTitleLength, TRUE)]
    IN IF ScraperType(s) = "rss" THEN listed
       ELSE <<Item("c", s, 6, TRUE)>> \o SubSeq(listed, 1, 1)
            \o <<Item("d", s, 0, TRUE),
                 Item("none", s, 2 * MinTitleLength, FALSE)>>
            \o SubSeq(listed, 2, Len(listed))

\* (every block passes)
ValidBlockAlways(b) == TRUE

\* processArticleElement 88-100: the block has a title of at least 10
\* characters and a link
ValidBlock(b) == b.titleLen >= MinTitleLength /\ b.hasLink

\* ------------------------------------------------------------ the store
RowsFor(rows, u) == {row \in rows : row.url = u}

\* (the lookup never finds the row)
FindByUrlNever(rows, u) == FALSE

\* Article.findByUrl: result.rows[0] || null, as "a row exists"
FindByUrl(rows, u) == RowsFor(rows, u) # {}

\* (a conflicting insert replaces the stored row wholesale)
ArticleCreateReplace(rows, data, id, t) ==
    (rows \ RowsFor(rows, data.url)) \cup
        {[id |-> id, source_id |-> data.source_id, url |-> data.url,
          title |-> data.title, excerpt |-> data.excerpt,
          content |-> data.content, created_at |-> t, updated_at |-> t]}

\* (a plain INSERT on a table without the UNIQUE constraint)
ArticleCreateAppend(rows, data, id, t) ==
    rows \cup {[id |-> id, source_id |-> data.source_id, url |-> data.url,
               title |-> data.title, excerpt |-> data.excerpt,
               content |-> data.content, created_at |-> t, updated_at |-> t]}

\* Article.create: INSERT ... ON CONFLICT (url) DO UPDATE SET title, excerpt,
\* content, updated_at = NOW(); created_at DEFAULT NOW() on insert only.
ArticleCreate(rows, data, id, t) ==
    IF FindByUrl(rows, data.url)
    THEN {IF row.url = data.url
          THEN [row EXCEPT !.title = data.title, !.excerpt = data.excerpt,
                           !.content = data.content, !.updated_at = t]
          ELSE row : row \in rows}
    ELSE rows \cup {[id |-> id, source_id |-> data.source_id, url |-> data.url,
                     title |-> data.title, excerpt |-> data.excerpt,
                     content |-> data.content,
                     created_at |-> t, updated_at |-> t]}

\* the row Article.create returns (RETURNING *)
RowOf(rows, u) == CHOOSE row \in rows : row.url = u

\* ------------------------------------------------------- run records
NoResults == [total |-> 0, successful |-> 0, failed |-> 0, articles |-> 0,
              details |-> <<>>]

NoRet == [success |-> FALSE, total |-> 0, successful |-> 0, failed |-> 0,
          articles |-> 0, timedOut |-> FALSE]

\* call: "none" (not made), "busy" (answered "already in progress"),
\*       "pending" (the caller awaits the result), "returned", "threw"
\* pc:   the await at which the source loop is suspended, or "done" (the loop
\*       has ended) / "rejected" (an exception left the loop)
\* The last seven fields record what the run did (they are read by no
\* action): timerFired - the timer of Promise.race expired; attempted - the
\* sources whose iteration began; fetched - the sources whose document was
\* fetched; delayed - those of them whose fetch was followed by the sleep of
\* fetchHTML; marks - <<source, column>> for every bookkeeping column of the
\* sources table the run has updated;
\* threw - the sources whose scrape() threw; created - <<url, time>> of every
\* Article.create that resolved; unsaved - the URLs of the items dropped
\* because findByUrl or Article.create rejected.
NoRun == [call |-> "none", kind |-> "none", ids |-> <<>>, timeout |-> FALSE,
          maxArticles |-> 0, idx |-> 1, pc |-> "idle", results |-> NoResults,
          status |-> "error", articlesFound |-> 0, errorMessage |-> "null",
          items |-> <<>>, k |-> 1, found |-> 0, ret |-> NoRet,
          timerFired |-> FALSE, attempted |-> <<>>, fetched |-> {},
          delayed |-> {}, marks |-> {},
          threw |-> {}, created |-> {}, unsaved |-> {}]

Started(R) == R.call \notin {"none", "busy"}
LoopActive(R) == Started(R) /\ R.pc \notin {"done", "rejected"}
\* (the loop variable is read at the mirrored position of the list)
CurrentSourceMirrored(R) == R.ids[Len(R.ids) + 1 - R.idx]

\* the sourceId of the iteration the loop is in
CurrentSource(R) == R.ids[R.idx]
CurrentItem(R) == R.items[R.k]

\* scrapeSelected 410-417 / scrapeAll 265-269: top of the for loop, up to the
\* first await of an iteration; an id without scraper counts as failed and is
\* skipped without detail entry.
RECURSIVE LoopTop(_)
LoopTop(R) ==
    IF R.idx > Len(R.ids) THEN [R EXCEPT !.pc = "done"]
    ELSE IF R.ids[R.idx] \notin SourceIds
         THEN LoopTop([R EXCEPT !.idx = @ + 1, !.results.failed = @ + 1])
         ELSE [R EXCEPT !.pc = "lastScraped", !.status = "error",
                        !.articlesFound = 0, !.errorMessage = "null",
                        !.items = <<>>, !.k = 1, !.found = 0,
                        !.attempted = Append(@, R.ids[R.idx])]

\* scrapeSelected 454-458: the max-articles check; break leaves the loop
\* before logScrape and details.push
CapCheck(R) ==
    IF R.maxArticles # 0 /\ R.results.articles >= R.maxArticles
    THEN [R EXCEPT !.pc = "done"]
    ELSE [R EXCEPT !.pc = "log"]

\* scrapeAll 278-299 / scrapeSelected 431-452: scraper.scrape() has returned
\* (scrapeSingle 364-365: scraper.scrape() has returned)
AfterScrape(R) ==
    LET n == R.found
        R1 == [R EXCEPT !.articlesFound = n, !.status = "success",
                        !.results.successful = @ + 1,
                        !.results.articles = @ + n]
    IN IF R.kind = "single"
       THEN [R EXCEPT !.articlesFound = n, !.pc = "singleLastScraped"]
       ELSE IF n > 0 THEN [R1 EXCEPT !.pc = "lastSuccess"] ELSE CapCheck(R1)

\* scrapeAll 300-307 / scrapeSelected 459-466: the catch block up to its await
\* (scrapeSingle 374-375: its catch block up to the await)
Catch(R, msg) ==
    IF R.kind = "single"
    THEN [R EXCEPT !.status = "error", !.errorMessage = msg,
                   !.pc = "singleUpdErr"]
    ELSE [R EXCEPT !.status = "error", !.errorMessage = msg,
                   !.results.failed = @ + 1, !.pc = "updErr"]

\* RSSScraper.scrape 38-53 / CheerioScraper.scrape 50-67: the item loop
\* (processArticleElement 88-100 returns null for an invalid block before
\* its first await)
RECURSIVE NextItem(_)
NextItem(R) ==
    IF R.k > Len(R.items) THEN AfterScrape(R)
    ELSE IF ScraperType(CurrentSource(R)) = "cheerio"
            /\ ~ValidBlock(CurrentItem(R))
         THEN NextItem([R EXCEPT !.k = @ + 1])
    ELSE [R EXCEPT !.pc = "find"]

\* (a dropped item ends the extractor as a failed fetch does)
ItemDoneAbort(R, pushed) ==
    IF pushed THEN NextItem([R EXCEPT !.k = @ + 1, !.found = @ + 1])
    ELSE Catch(R, "item")

\* the catch of the item loop: the item is logged and dropped
ItemDone(R, pushed) ==
    NextItem([R EXCEPT !.k = @ + 1, !.found = @ + (IF pushed THEN 1 ELSE 0)])

\* (the timedOut flag is lost)
SnapshotUnflagged(res, timedOut) ==
    [success |-> TRUE, total |-> res.total, successful |-> res.successful,
     failed |-> res.failed, articles |-> res.articles, timedOut |-> FALSE]

SnapshotReset(res, timedOut) ==
    [success |-> TRUE, total |-> res.total, successful |-> 0,
     failed |-> 0, articles |-> 0, timedOut |-> timedOut]

\* scrapeAll 340-346 / scrapeSelected 500-526: the object handed to the caller
Snapshot(res, timedOut) ==
    [success |-> TRUE, total |-> res.total, successful |-> res.successful,
     failed |-> res.failed, articles |-> res.articles, timedOut |-> timedOut]

\* scrapeSingle 369-373: the object it returns
SingleResult(R) ==
    [NoRet EXCEPT !.success = TRUE, !.articles = R.articlesFound]

\* What the caller's await does when the loop ends: scrapeAll 330-346,
\* scrapeSelected 493-526.  A loop that ends while the caller still awaits
\* it settles the call; with a timeout the rejection is caught as a time-out,
\* without one it propagates past `this.isRunning = false`.
Settled(R) ==
    IF R.call # "pending" \/ R.pc \notin {"done", "rejected"} THEN R
    ELSE IF R.pc = "done"
         THEN [R EXCEPT !.call = "returned",
                        !.ret = IF R.kind = "single" THEN SingleResult(R)
                                ELSE Snapshot(R.results, FALSE)]
    ELSE IF R.timeout
         THEN [R EXCEPT !.call = "returned", !.ret = Snapshot(R.results, TRUE)]
    ELSE [R EXCEPT !.call = "threw"]

\* this.isRunning after the step that took run record Old to New;
\* scrapeSingle never assigns it
FlagAfter(flag, Old, New) ==
    IF Old.kind # "single" /\ Old.call = "pending" /\ New.call = "returned"
    THEN FALSE ELSE flag

Commit(r, R) ==
    LET New == Settled(R)
    IN /\ runs' = [runs EXCEPT ![r] = New]
       /\ isRunning' = FlagAfter(isRunning, R, New)

\* ------------------------------------------------------------- Init
\* no item has been processed, no hashtag is tracked
\* tag names, one of them a hashtag
TagNames == {"Foley", "#beach"}

\* part_004 50-64: no tag rows yet beyond the seeded ones, whose count is the
\* DEFAULT 0, and no article_tags rows.  inserts counts, per tag name, the
\* INSERT INTO article_tags statements of the committed addTags calls; calls
\* counts the addTags calls
NoTags == [names |-> {}, count |-> [t \in TagNames |-> 0],
           article_tags |-> {}, inserts |-> [t \in TagNames |-> 0],
           calls |-> 0]

\* part_004 30-46: the empty articles table; id is the next value of
\* articles_id_seq, clock the value of NOW(), last the articleData of the
\* latest Article.create (NULL before the first)
NoRows == [rows |-> {}, id |-> 1, clock |-> 1, last |-> NULL]

\* app.js 13-14 before the script's startup code has run: listener - the
\* DOMContentLoaded listener is registered and the event has not fired;
\* elements - the required elements are in the document; dueNow / dueNext -
\* the setTimeout(waitForElements, 100) timers due at clock / at the next
\* tick; backup - the 1-second timer is pending; clock - milliseconds since
\* the startup code ran; inits - the invocations of initializeApp
NoPage == [started |-> FALSE, listener |-> FALSE, elements |-> FALSE,
           isReady |-> FALSE, checkCount |-> 0, dueNow |-> 0, dueNext |-> 0,
           backup |-> FALSE, clock |-> 0, inits |-> 0]

\* no articleData has been handed to saveArticle yet
NotHanded == [extractor |-> "none", titleIn |-> 0, excerptIn |-> 0,
              title |-> 0, excerpt |-> 0]

NoArticleData == [title |-> <<>>, excerpt |-> <<>>, category |-> "none"]
\* (initialize() has loaded every source: each was enabled at that time)
OtherInit ==
    /\ articleData = NoArticleData
    /\ hashtags = <<>>
    /\ enabled = SourceIds
    /\ scrapeJobs = <<>>
    /\ fetches = <<>>
    /\ tagStore = NoTags
    /\ handed = NotHanded
    /\ articlesTable = NoRows
    /\ page = NoPage

NoSource == [last_scraped |-> NULL, last_successful_scrape |-> NULL,
             scrape_count |-> 0, error_count |-> 0, last_error |-> "null"]

Init ==
    /\ isRunning = FALSE
    /\ runs = [r \in 1..MaxCalls |-> NoRun]
    /\ nextRun = 1
    /\ sources = [s \in SourceIds |-> NoSource]
    /\ articles = {}
    /\ nextId = 1
    /\ article_tags = {}
    /\ scrape_logs = <<>>
    /\ now = 1
    /\ storeFaults = 0
    /\ fetchFails = 0
    /\ OtherInit

\* ---------------------------------------------------- start requests
\* (the guard left out: every request starts a run)
RejectsNever(flag) == FALSE

\* scrapeAll 246 / scrapeSelected 387: the guard on this.isRunning
Rejects(flag) == flag

\* the arguments callers pass to scrapeSelected(sourceIds, options)
SelectedCalls ==
    {[ids |-> <<1, 2>>, timeout |-> TRUE, maxArticles |-> 0],
     [ids |-> <<2, 1>>, timeout |-> FALSE, maxArticles |-> 1],
     [ids |-> <<UnknownId, 1>>, timeout |-> FALSE, maxArticles |-> 0]}

\* scrapeAll 246-249 / scrapeSelected 387-390: "Scraping already in progress"
Busy(kind) ==
    /\ runs' = [runs EXCEPT ![nextRun] = [NoRun EXCEPT !.call = "busy",
                                                       !.kind = kind]]
    /\ UNCHANGED isRunning

\* scrapeAll 251-265 / scrapeSelected 392-410: the call up to its first await
Begin(kind, ids, timeout, maxArticles) ==
    LET R == LoopTop([NoRun EXCEPT !.call = "pending", !.kind = kind,
                                   !.ids = ids, !.timeout = timeout,
                                   !.maxArticles = maxArticles,
                                   !.results.total = Len(ids)])
        New == Settled(R)
    IN /\ runs' = [runs EXCEPT ![nextRun] = New]
       /\ isRunning' = FlagAfter(TRUE, R, New)

\* ScraperManager.scrapeAll()
ScrapeAll ==
    /\ nextRun <= MaxCalls
    /\ nextRun' = nextRun + 1
    /\ IF Rejects(isRunning) THEN Busy("all")
       ELSE Begin("all", Scrapers, FALSE, 0)
    /\ UNCHANGED <<sources, storeVars, scrape_logs, now, storeFaults,
                   fetchFails>>
    /\ UNCHANGED otherVars

\* ScraperManager.scrapeSelected(sourceIds, {timeout, maxArticles})
ScrapeSelected ==
    /\ nextRun <= MaxCalls
    /\ nextRun' = nextRun + 1
    /\ \E c \in SelectedCalls :
          IF Rejects(isRunning) THEN Busy("selected")
          ELSE Begin("selected", c.ids, c.timeout, c.maxArticles)
    /\ UNCHANGED <<sources, storeVars, scrape_logs, now, storeFaults,
                   fetchFails>>
    /\ UNCHANGED otherVars

\* ScraperManager.scrapeSelected([sourceId]) without options
ScrapeSelectedOne ==
    /\ nextRun <= MaxCalls
    /\ nextRun' = nextRun + 1
    /\ \E s \in SourceIds :
          IF Rejects(isRunning) THEN Busy("selected")
          ELSE Begin("selected", <<s>>, FALSE, 0)
    /\ UNCHANGED <<sources, storeVars, scrape_logs, now, storeFaults,
                   fetchFails>>
    /\ UNCHANGED otherVars

\* ScraperManager.scrapeSingle(sourceId) up to its first await: no guard on
\* this.isRunning and no assignment to it; an id without scraper throws
ScrapeSingle ==
    /\ nextRun <= MaxCalls
    /\ nextRun' = nextRun + 1
    /\ \E s \in SourceIds \cup {UnknownId} :
          runs' = [runs EXCEPT ![nextRun] =
                      IF s \notin SourceIds
                      THEN [NoRun EXCEPT !.call = "threw", !.kind = "single",
                                         !.ids = <<s>>, !.pc = "rejected"]
                      ELSE [NoRun EXCEPT !.call = "pending", !.kind = "single",
                                         !.ids = <<s>>, !.pc = "fetch",
                                         !.attempted = <<s>>]]
    /\ UNCHANGED <<isRunning, sources, storeVars, scrape_logs, now,
                   storeFaults, fetchFails>>
    /\ UNCHANGED otherVars

\* scrapeSelected 495-505: the timer of Promise.race expires while the call
\* still awaits the race; the source loop is not interrupted.
TimerFire(r) ==
    /\ runs[r].call = "pending" /\ runs[r].timeout /\ LoopActive(runs[r])
    /\ runs' = [runs EXCEPT ![r].call = "returned",
                            ![r].ret = Snapshot(runs[r].results, TRUE),
                            ![r].timerFired = TRUE]
    /\ isRunning' = FALSE
    /\ UNCHANGED <<nextRun, sources, storeVars, scrape_logs, now,
                   storeFaults, fetchFails>>
    /\ UNCHANGED otherVars

\* ------------------------------------------------ outcomes of awaits
\* a db.query either resolves or rejects
DbQuery(ok) ==
    IF ok THEN storeFaults' = storeFaults
    ELSE storeFaults < MaxStoreFaults /\ storeFaults' = storeFaults + 1

\* axios.get / parser.parseURL either resolves or rejects
HttpGet(ok) ==
    IF ok THEN fetchFails' = fetchFails
    ELSE fetchFails < MaxFetchFails /\ fetchFails' = fetchFails + 1

\* ------------------------------------------------- the source loop
\* updateSourceTimestamp(sourceId, 'last_scraped')
LastScraped(r) ==
    /\ LoopActive(runs[r]) /\ runs[r].pc = "lastScraped"
    /\ \E ok \in BOOLEAN :
         /\ DbQuery(ok)
         /\ LET R == runs[r]
                s == CurrentSource(R)
            IN IF ok
               THEN /\ sources' = [sources EXCEPT ![s].last_scraped = now]
                    /\ now' = now + 1
                    /\ Commit(r, [R EXCEPT !.pc = "fetch",
                              !.marks = @ \cup {<<s, "last_scraped">>}])
               ELSE /\ UNCHANGED <<sources, now>>
                    /\ Commit(r, Catch(R, "db"))
    /\ UNCHANGED <<nextRun, storeVars, scrape_logs,
                   fetchFails>>
    /\ UNCHANGED otherVars

\* scraper.scrape(): fetchHTML / parseURL of the source's document
Fetch(r) ==
    /\ LoopActive(runs[r]) /\ runs[r].pc = "fetch"
    /\ \E ok \in BOOLEAN :
         /\ HttpGet(ok)
         /\ LET R == runs[r]
                s == CurrentSource(R)
            IN IF ok
               THEN Commit(r, NextItem([R EXCEPT
                              !.items = Document(s), !.k = 1, !.found = 0,
                              !.fetched = @ \cup {s},
                              !.delayed = IF ViaFetchHTML(s) THEN @ \cup {s}
                                          ELSE @]))
               ELSE Commit(r, Catch([R EXCEPT !.threw = @ \cup {s}],
                                    "fetch"))
    /\ UNCHANGED <<nextRun, sources, storeVars, scrape_logs, now,
                   storeFaults>>
    /\ UNCHANGED otherVars

\* processItem 67-71 / processArticleElement 105-109: Article.findByUrl
Find(r) ==
    /\ LoopActive(runs[r]) /\ runs[r].pc = "find"
    /\ \E ok \in BOOLEAN :
         /\ DbQuery(ok)
         /\ LET R == runs[r]
                u == CurrentItem(R).url
            IN IF ~ok
               THEN Commit(r, ItemDone([R EXCEPT !.unsaved = @ \cup {u}],
                                       FALSE))
               ELSE IF FindByUrl(articles, u)
                    THEN Commit(r, ItemDone(R, FALSE))
                    ELSE Commit(r, [R EXCEPT !.pc = "create"])
    /\ UNCHANGED <<nextRun, sources, storeVars, scrape_logs, now,
                   fetchFails>>
    /\ UNCHANGED otherVars

\* BaseScraper.saveArticle 149-154: Article.create
Create(r) ==
    /\ LoopActive(runs[r]) /\ runs[r].pc = "create"
    /\ \E ok \in BOOLEAN :
         /\ DbQuery(ok)
         /\ LET R == runs[r]
                it == CurrentItem(R)
                data == ArticleData(CurrentSource(R), it.url, it.ver)
            IN IF ok
               THEN /\ articles' = ArticleCreate(articles, data, nextId, now)
                    /\ nextId' = nextId + 1
                    /\ now' = now + 1
                    /\ LET R1 == [R EXCEPT !.created = @ \cup {<<it.url, now>>}]
                       IN IF Tags(it.url) # {}
                          THEN Commit(r, [R1 EXCEPT !.pc = "tags"])
                          ELSE Commit(r, ItemDone(R1, TRUE))
               ELSE /\ UNCHANGED <<articles, nextId, now>>
                    /\ Commit(r, ItemDone([R EXCEPT
                                  !.unsaved = @ \cup {it.url}], FALSE))
    /\ UNCHANGED <<nextRun, sources, article_tags, scrape_logs,
                   fetchFails>>
    /\ UNCHANGED otherVars

\* BaseScraper.saveArticle 157-159: Article.addTags (one transaction)
AddTags(r) ==
    /\ LoopActive(runs[r]) /\ runs[r].pc = "tags"
    /\ \E ok \in BOOLEAN :
         /\ DbQuery(ok)
         /\ LET R == runs[r]
                u == CurrentItem(R).url
            IN IF ok
               THEN /\ article_tags' = article_tags \cup
                          {<<RowOf(articles, u).id, t>> : t \in Tags(u)}
                    /\ Commit(r, ItemDone(R, TRUE))
               ELSE /\ UNCHANGED article_tags
                    /\ Commit(r, ItemDone(R, FALSE))
    /\ UNCHANGED <<nextRun, sources, articles, nextId, scrape_logs, now,
                   fetchFails>>
    /\ UNCHANGED otherVars

\* updateSourceTimestamp(sourceId, 'last_successful_scrape')
LastSuccess(r) ==
    /\ LoopActive(runs[r]) /\ runs[r].pc = "lastSuccess"
    /\ \E ok \in BOOLEAN :
         /\ DbQuery(ok)
         /\ LET R == runs[r]
                s == CurrentSource(R)
            IN IF ok
               THEN /\ sources' = [sources EXCEPT
                                     ![s].last_successful_scrape = now]
                    /\ now' = now + 1
                    /\ Commit(r, [R EXCEPT !.pc = "count",
                              !.marks = @ \cup
                                  {<<s, "last_successful_scrape">>}])
               ELSE /\ UNCHANGED <<sources, now>>
                    /\ Commit(r, Catch(R, "db"))
    /\ UNCHANGED <<nextRun, storeVars, scrape_logs,
                   fetchFails>>
    /\ UNCHANGED otherVars

\* updateSourceCount(sourceId, articlesFound), then the max-articles check
Count(r) ==
    /\ LoopActive(runs[r]) /\ runs[r].pc = "count"
    /\ \E ok \in BOOLEAN :
         /\ DbQuery(ok)
         /\ LET R == runs[r]
                s == CurrentSource(R)
            IN IF ok
               THEN /\ sources' = [sources EXCEPT ![s].scrape_count = @ + 1]
                    /\ Commit(r, CapCheck([R EXCEPT
                              !.marks = @ \cup {<<s, "scrape_count">>}]))
               ELSE /\ UNCHANGED sources
                    /\ Commit(r, Catch(R, "db"))
    /\ UNCHANGED <<nextRun, storeVars, scrape_logs, now, fetchFails>>
    /\ UNCHANGED otherVars

\* updateSourceError(sourceId, error.message) inside the catch block
UpdateSourceError(r) ==
    /\ LoopActive(runs[r]) /\ runs[r].pc = "updErr"
    /\ \E ok \in BOOLEAN :
         /\ DbQuery(ok)
         /\ LET R == runs[r]
                s == CurrentSource(R)
            IN IF ok
               THEN /\ sources' = [sources EXCEPT
                                     ![s].error_count = @ + 1,
                                     ![s].last_error = R.errorMessage]
                    /\ Commit(r, [R EXCEPT !.pc = "log",
                              !.marks = @ \cup {<<s, "error_count">>}])
               ELSE /\ UNCHANGED sources
                    /\ Commit(r, [R EXCEPT !.pc = "rejected"])
    /\ UNCHANGED <<nextRun, storeVars, scrape_logs, now, fetchFails>>
    /\ UNCHANGED otherVars

\* logScrape(...), then results.details.push(...) and the next iteration
LogScrape(r) ==
    /\ LoopActive(runs[r]) /\ runs[r].pc = "log"
    /\ \E ok \in BOOLEAN :
         /\ DbQuery(ok)
         /\ LET R == runs[r]
                s == CurrentSource(R)
                entry == [source |-> s, status |-> R.status,
                          articles |-> R.articlesFound,
                          error |-> R.errorMessage]
            IN IF ok
               THEN /\ scrape_logs' = Append(scrape_logs,
                          [source_id |-> s, status |-> R.status,
                           articles_found |-> R.articlesFound,
                           error_message |-> R.errorMessage])
                    /\ Commit(r, LoopTop([R EXCEPT
                              !.results.details = Append(@, entry),
                              !.idx = @ + 1]))
               ELSE /\ UNCHANGED scrape_logs
                    /\ Commit(r, [R EXCEPT !.pc = "rejected"])
    /\ UNCHANGED <<nextRun, sources, storeVars, now,
                   fetchFails>>
    /\ UNCHANGED otherVars

\* ------------------------------------------------- scrapeSingle
\* scrapeSingle 365: updateSourceTimestamp(sourceId, 'last_scraped')
SingleLastScraped(r) ==
    /\ LoopActive(runs[r]) /\ runs[r].pc = "singleLastScraped"
    /\ \E ok \in BOOLEAN :
         /\ DbQuery(ok)
         /\ LET R == runs[r]
                s == CurrentSource(R)
            IN IF ok
               THEN /\ sources' = [sources EXCEPT ![s].last_scraped = now]
                    /\ now' = now + 1
                    /\ Commit(r, [R EXCEPT !.pc = "singleLastSuccess",
                              !.marks = @ \cup {<<s, "last_scraped">>}])
               ELSE /\ UNCHANGED <<sources, now>>
                    /\ Commit(r, Catch(R, "db"))
    /\ UNCHANGED <<nextRun, storeVars, scrape_logs, fetchFails>>
    /\ UNCHANGED otherVars

\* scrapeSingle 366: updateSourceTimestamp(sourceId, 'last_successful_scrape')
SingleLastSuccess(r) ==
    /\ LoopActive(runs[r]) /\ runs[r].pc = "singleLastSuccess"
    /\ \E ok \in BOOLEAN :
         /\ DbQuery(ok)
         /\ LET R == runs[r]
                s == CurrentSource(R)
            IN IF ok
               THEN /\ sources' = [sources EXCEPT
                                     ![s].last_successful_scrape = now]
                    /\ now' = now + 1
                    /\ Commit(r, [R EXCEPT !.pc = "singleCount",
                              !.marks = @ \cup
                                  {<<s, "last_successful_scrape">>}])
               ELSE /\ UNCHANGED <<sources, now>>
                    /\ Commit(r, Catch(R, "db"))
    /\ UNCHANGED <<nextRun, storeVars, scrape_logs, fetchFails>>
    /\ UNCHANGED otherVars

\* scrapeSingle 367-373: updateSourceCount, then return
SingleCount(r) ==
    /\ LoopActive(runs[r]) /\ runs[r].pc = "singleCount"
    /\ \E ok \in BOOLEAN :
         /\ DbQuery(ok)
         /\ LET R == runs[r]
                s == CurrentSource(R)
            IN IF ok
               THEN /\ sources' = [sources EXCEPT ![s].scrape_count = @ + 1]
                    /\ Commit(r, [R EXCEPT !.pc = "done",
                              !.marks = @ \cup {<<s, "scrape_count">>}])
               ELSE /\ UNCHANGED sources
                    /\ Commit(r, Catch(R, "db"))
    /\ UNCHANGED <<nextRun, storeVars, scrape_logs, now, fetchFails>>
    /\ UNCHANGED otherVars

\* scrapeSingle 375-376: updateSourceError, then throw error
SingleUpdateSourceError(r) ==
    /\ LoopActive(runs[r]) /\ runs[r].pc = "singleUpdErr"
    /\ \E ok \in BOOLEAN :
         /\ DbQuery(ok)
         /\ LET R == runs[r]
                s == CurrentSource(R)
            IN IF ok
               THEN /\ sources' = [sources EXCEPT
                                     ![s].error_count = @ + 1,
                                     ![s].last_error = R.errorMessage]
                    /\ Commit(r, [R EXCEPT !.pc = "rejected",
                              !.marks = @ \cup {<<s, "error_count">>}])
               ELSE /\ UNCHANGED sources
                    /\ Commit(r, [R EXCEPT !.pc = "rejected"])
    /\ UNCHANGED <<nextRun, storeVars, scrape_logs, now, fetchFails>>
    /\ UNCHANGED otherVars

Next ==
    \/ ScrapeAll
    \/ ScrapeSelected
    \/ \E r \in 1..MaxCalls :
         \/ TimerFire(r)
         \/ LastScraped(r)
         \/ Fetch(r)
         \/ Find(r)
         \/ Create(r)
         \/ AddTags(r)
         \/ LastSuccess(r)
         \/ Count(r)
         \/ UpdateSourceError(r)
         \/ LogScrape(r)

Spec == Init /\ [][Next]_vars

\* The store as a complete scrapeAll() of an earlier process left it (the
\* tables outlive the process, the manager's fields do not)
ScrapedBefore ==
    /\ articles =
          {[id |-> 1, source_id |-> 1, url |-> "a", title |-> Title("a", 1),
            excerpt |-> Excerpt("a", 1), content |-> Content("a", 1),
            created_at |-> 2, updated_at |-> 2],
           [id |-> 2, source_id |-> 2, url |-> "b", title |-> Title("b", 2),
            excerpt |-> Excerpt("b", 2), content |-> <<>>,
            created_at |-> 5, updated_at |-> 5]}
    /\ nextId = 3
    /\ article_tags = {<<1, "Foley">>}
    /\ sources = [s \in SourceIds |->
                     [last_scraped |-> IF s = 1 THEN 1 ELSE 4,
                      last_successful_scrape |-> IF s = 1 THEN 3 ELSE 6,
                      scrape_count |-> 1, error_count |-> 0,
                      last_error |-> "null"]]
    /\ scrape_logs =
          <<[source_id |-> 1, status |-> "success", articles_found |-> 1,
             error_message |-> "null"],
            [source_id |-> 2, status |-> "success", articles_found |-> 1,
             error_message |-> "null"]>>
    /\ now = 7

\* A process starts on an empty database or on one scraped before
InitSingle ==
    /\ isRunning = FALSE
    /\ runs = [r \in 1..MaxCalls |-> NoRun]
    /\ nextRun = 1
    /\ storeFaults = 0
    /\ fetchFails = 0
    /\ OtherInit
    /\ \/ /\ sources = [s \in SourceIds |-> NoSource]
          /\ articles = {}
          /\ nextId = 1
          /\ article_tags = {}
          /\ scrape_logs = <<>>
          /\ now = 1
       \/ ScrapedBefore

\* single-source requests: POST /api/sources/:id/test (scrapeSingle) next to
\* scrapeSelected([id])
NextSingle ==
    \/ ScrapeSingle
    \/ ScrapeSelectedOne
    \/ \E r \in 1..MaxCalls :
         \/ LastScraped(r)
         \/ Fetch(r)
         \/ Find(r)
         \/ Create(r)
         \/ AddTags(r)
         \/ LastSuccess(r)
         \/ Count(r)
         \/ UpdateSourceError(r)
         \/ LogScrape(r)
         \/ SingleLastScraped(r)
         \/ SingleLastSuccess(r)
         \/ SingleCount(r)
         \/ SingleUpdateSourceError(r)

SpecSingle == InitSingle /\ [][NextSingle]_vars

\* ------------------------------------------------ categorizeArticle
\* Texts are sequences of characters.
\* String.prototype.toLowerCase on the letters that occur in the inputs
LowerOf(c) ==
    CASE c = "S" -> "s" [] c = "T" -> "t" [] c = "G" -> "g" [] OTHER -> c
ToLowerCase(t) == [i \in 1..Len(t) |-> LowerOf(t[i])]

\* RegExp.prototype.test for an alternation of literals: some alternative
\* occurs somewhere in the text
Occurs(k, t) ==
    \E i \in 1..(Len(t) - Len(k) + 1) : SubSeq(t, i, i + Len(k) - 1) = k
Test(alternatives, t) == \E k \in alternatives : Occurs(k, t)

\* categorizeArticle: /weather|storm|hurricane|flood|tornado|forecast/
WeatherTerms ==
    {<<"w", "e", "a", "t", "h", "e", "r">>, <<"s", "t", "o", "r", "m">>,
     <<"h", "u", "r", "r", "i", "c", "a", "n", "e">>,
     <<"f", "l", "o", "o", "d">>, <<"t", "o", "r", "n", "a", "d", "o">>,
     <<"f", "o", "r", "e", "c", "a", "s", "t">>}

\* categorizeArticle: /election|council|mayor|government|vote|policy|bill/
PoliticsTerms ==
    {<<"e", "l", "e", "c", "t", "i", "o", "n">>,
     <<"c", "o", "u", "n", "c", "i", "l">>, <<"m", "a", "y", "o", "r">>,
     <<"g", "o", "v", "e", "r", "n", "m", "e", "n", "t">>,
     <<"v", "o", "t", "e">>, <<"p", "o", "l", "i", "c", "y">>,
     <<"b", "i", "l", "l">>}

\* categorizeArticle: /football|basketball|baseball|sports|game|team|player/
SportsTerms ==
    {<<"f", "o", "o", "t", "b", "a", "l", "l">>,
     <<"b", "a", "s", "k", "e", "t", "b", "a", "l", "l">>,
     <<"b", "a", "s", "e", "b", "a", "l", "l">>,
     <<"s", "p", "o", "r", "t", "s">>, <<"g", "a", "m", "e">>,
     <<"t", "e", "a", "m">>, <<"p", "l", "a", "y", "e", "r">>}

\* categorizeArticle: /school|education|student|teacher|university|college/
EducationTerms ==
    {<<"s", "c", "h", "o", "o", "l">>,
     <<"e", "d", "u", "c", "a", "t", "i", "o", "n">>,
     <<"s", "t", "u", "d", "e", "n", "t">>,
     <<"t", "e", "a", "c", "h", "e", "r">>,
     <<"u", "n", "i", "v", "e", "r", "s", "i", "t", "y">>,
     <<"c", "o", "l", "l", "e", "g", "e">>}

\* categorizeArticle: /beach|tourism|visitor|hotel|resort|festival/
TourismTerms ==
    {<<"b", "e", "a", "c", "h">>, <<"t", "o", "u", "r", "i", "s", "m">>,
     <<"v", "i", "s", "i", "t", "o", "r">>, <<"h", "o", "t", "e", "l">>,
     <<"r", "e", "s", "o", "r", "t">>,
     <<"f", "e", "s", "t", "i", "v", "a", "l">>}

\* categorizeArticle: /development|construction|zoning|building|property/
DevelopmentTerms ==
    {<<"d", "e", "v", "e", "l", "o", "p", "m", "e", "n", "t">>,
     <<"c", "o", "n", "s", "t", "r", "u", "c", "t", "i", "o", "n">>,
     <<"z", "o", "n", "i", "n", "g">>,
     <<"b", "u", "i", "l", "d", "i", "n", "g">>,
     <<"p", "r", "o", "p", "e", "r", "t", "y">>}

\* (the sports rule is tried before the weather rule)
categorizeSportsFirst(title, excerpt) ==
    LET text == ToLowerCase(title \o <<" ">> \o excerpt)
    IN IF Test(SportsTerms, text) THEN "sports"
       ELSE IF Test(WeatherTerms, text) THEN "weather"
       ELSE IF Test(PoliticsTerms, text) THEN "politics"
       ELSE IF Test(EducationTerms, text) THEN "education"
       ELSE IF Test(TourismTerms, text) THEN "tourism"
       ELSE IF Test(DevelopmentTerms, text) THEN "development"
       ELSE "local"

\* BaseScraper.categorizeArticle(title, excerpt)
categorizeArticle(title, excerpt) ==
    LET text == ToLowerCase(title \o <<" ">> \o excerpt)
    IN IF Test(WeatherTerms, text) THEN "weather"
       ELSE IF Test(PoliticsTerms, text) THEN "politics"
       ELSE IF Test(SportsTerms, text) THEN "sports"
       ELSE IF Test(EducationTerms, text) THEN "education"
       ELSE IF Test(TourismTerms, text) THEN "tourism"
       ELSE IF Test(DevelopmentTerms, text) THEN "development"
       ELSE "local"

\* titles and excerpts of the items an extractor meets
Texts ==
    {<<>>, <<"S", "t", "o", "r", "m">>,
     <<"G", "a", "m", "e", " ", "t", "o", "d", "a", "y">>,
     <<"v", "o", "t", "e">>, <<"s", "c", "h", "o", "o", "l">>,
     <<"b", "e", "a", "c", "h">>, <<"z", "o", "n", "i", "n", "g">>,
     <<"n", "e", "w", "s">>,
     <<"b", "i", "l", "l", "b", "o", "a", "r", "d">>,
     <<"T", "e", "a", "m">>, <<"h", "o", "t", "e", "l">>,
     <<"f", "o", "r", "e", "c", "a", "s", "t">>,
     <<"a", " ", "s", "t", "o", "r", "m", "y", " ", "g", "a", "m", "e">>}

\* processItem 96-117 / processArticleElement 132-149: the item is
\* categorized and the category put into articleData
ProcessItem ==
    /\ \E title \in Texts, excerpt \in Texts :
          articleData' = [title |-> title, excerpt |-> excerpt,
                          category |-> categorizeArticle(title, excerpt)]
    /\ UNCHANGED <<backendVars, hashtags, enabled, scrapeJobs, fetches,
                   tagStore, handed, articlesTable, page>>

NextCategorize == ProcessItem

SpecCategorize == Init /\ [][NextCategorize]_vars

\* ------------------------------------------------ front end: hashtags
\* The characters typed: '#', a letter, a blank, and Times, which stands for
\* the multiplication sign that is also the text of a tag's remove button.
Times == "x"
Chars == {"#", "a", " ", Times}
Values == UNION {[1..n -> Chars] : n \in 0..MaxLen}

\* String.prototype.trim
RECURSIVE Trim(_)
Trim(t) ==
    IF t = <<>> THEN t
    ELSE IF Head(t) = " " THEN Trim(Tail(t))
    ELSE IF t[Len(t)] = " " THEN Trim(SubSeq(t, 1, Len(t) - 1))
    ELSE t

\* String.prototype.replace(c, ''): the first occurrence of c is removed
ReplaceFirst(t, c) ==
    IF \E i \in DOMAIN t : t[i] = c
    THEN LET i == CHOOSE i \in DOMAIN t :
                      t[i] = c /\ \A j \in 1..(i - 1) : t[j] # c
         IN SubSeq(t, 1, i - 1) \o SubSeq(t, i + 1, Len(t))
    ELSE t

\* textContent of a .hashtag-tag element: its text node, then the remove span
TextContent(hashtag) == hashtag \o <<Times>>

\* addHashtag 471-472: the texts of the tags in the container
Existing == {Trim(ReplaceFirst(TextContent(hashtags[i]), Times)) :
                i \in DOMAIN hashtags}

\* addHashtag(inputEl, containerEl) with inputEl.value = value
AddHashtag ==
    /\ Len(hashtags) < MaxTags
    /\ \E value \in Values :
          LET v == Trim(value)
              hashtag == IF v # <<>> /\ Head(v) = "#" THEN v ELSE <<"#">> \o v
          IN hashtags' = IF v = <<>> \/ hashtag \in Existing THEN hashtags
                         ELSE Append(hashtags, hashtag)
    /\ UNCHANGED <<backendVars, articleData, enabled, scrapeJobs, fetches,
                   tagStore, handed, articlesTable, page>>

\* initializeHashtags 435-446: a click on the remove button of a tag
RemoveHashtag ==
    /\ \E i \in DOMAIN hashtags :
          hashtags' = SubSeq(hashtags, 1, i - 1)
                          \o SubSeq(hashtags, i + 1, Len(hashtags))
    /\ UNCHANGED <<backendVars, articleData, enabled, scrapeJobs, fetches,
                   tagStore, handed, articlesTable, page>>

NextHashtags == AddHashtag \/ RemoveHashtag

SpecHashtags == Init /\ [][NextHashtags]_vars

\* ------------------------------------------------ enabling sources
\* PATCH /api/sources/:id/toggle: UPDATE sources SET enabled = NOT enabled
ToggleSource ==
    /\ \E s \in SourceIds :
          enabled' = IF s \in enabled THEN enabled \ {s} ELSE enabled \cup {s}
    /\ UNCHANGED <<backendVars, articleData, hashtags, scrapeJobs, fetches,
                   tagStore, handed, articlesTable, page>>

\* scrapeAll requests next to the admin's toggle
NextToggle ==
    \/ ToggleSource
    \/ ScrapeAll
    \/ \E r \in 1..MaxCalls :
         \/ LastScraped(r)
         \/ Fetch(r)
         \/ Find(r)
         \/ Create(r)
         \/ AddTags(r)
         \/ LastSuccess(r)
         \/ Count(r)
         \/ UpdateSourceError(r)
         \/ LogScrape(r)

SpecToggle == Init /\ [][NextToggle]_vars

\* ------------------------------------------------ scrape jobs
\* admin.js 391-403 / 593-604: the job object a route creates.  call is the
\* ScraperManager call its async block makes; awaiting says that the block
\* has not come back from it yet.
NewJobIdle(total, call) ==
    [status |-> "idle", total |-> total, completed |-> 0, articles |-> 0,
     call |-> call, awaiting |-> TRUE]

NewJob(total, call) ==
    [status |-> "running", total |-> total, completed |-> 0, articles |-> 0,
     call |-> call, awaiting |-> TRUE]

\* the call a route's async block makes, up to the first await of the call
StartCall(kind, ids) ==
    /\ nextRun <= MaxCalls
    /\ nextRun' = nextRun + 1
    /\ IF Rejects(isRunning) THEN Busy(kind)
       ELSE Begin(kind, ids, FALSE, 0)
    /\ UNCHANGED <<sources, storeVars, scrape_logs, now, storeFaults,
                   fetchFails>>

\* POST /api/scrape/start: answered 409 while a job is running; otherwise a
\* job is created and scrapeSelected(sourceIds) or scrapeAll() is called
ScrapeStart ==
    /\ \A j \in 1..Len(scrapeJobs) : scrapeJobs[j].status # "running"
    /\ \E sourceIds \in {<<>>} \cup {<<s>> : s \in SourceIds} :
          /\ IF Len(sourceIds) > 0 THEN StartCall("selected", sourceIds)
             ELSE StartCall("all", Scrapers)
          /\ scrapeJobs' = Append(scrapeJobs, NewJob(Len(sourceIds), nextRun))
    /\ UNCHANGED <<articleData, hashtags, enabled, fetches, tagStore, handed,
                   articlesTable, page>>

\* SELECT id FROM sources WHERE scraper_type = 'rss' AND enabled = true
RssSourceIds == {s \in enabled : ScraperType(s) = "rss"}

\* POST /api/scrape/rss-only: answered 404 without an enabled RSS source;
\* otherwise a job is created and scrapeSelected(sourceIds) is called
ScrapeRssOnly ==
    /\ RssSourceIds # {}
    /\ \E sourceIds \in [1..Cardinality(RssSourceIds) -> RssSourceIds] :
          /\ \A i, j \in DOMAIN sourceIds : i < j => sourceIds[i] < sourceIds[j]
          /\ StartCall("selected", sourceIds)
          /\ scrapeJobs' = Append(scrapeJobs, NewJob(Len(sourceIds), nextRun))
    /\ UNCHANGED <<articleData, hashtags, enabled, fetches, tagStore, handed,
                   articlesTable, page>>

\* admin.js 424-431 / 616-623: the async block of job j comes back from its
\* call: a result (also the "already in progress" one) completes the job, an
\* exception makes it an error
JobSettle(j) ==
    /\ scrapeJobs[j].awaiting
    /\ runs[scrapeJobs[j].call].call \in {"busy", "returned", "threw"}
    /\ scrapeJobs' = [scrapeJobs EXCEPT
          ![j].awaiting = FALSE,
          ![j].status = IF runs[scrapeJobs[j].call].call = "threw"
                        THEN "error" ELSE "completed"]
    /\ UNCHANGED <<backendVars, articleData, hashtags, enabled, fetches,
                   tagStore, handed, articlesTable, page>>

\* the admin routes next to the scheduler's scrapeAll
NextJobs ==
    \/ ScrapeStart
    \/ ScrapeRssOnly
    \/ ScrapeAll
    \/ \E j \in 1..Len(scrapeJobs) : JobSettle(j)
    \/ \E r \in 1..MaxCalls :
         \/ LastScraped(r)
         \/ Fetch(r)
         \/ Find(r)
         \/ Create(r)
         \/ AddTags(r)
         \/ LastSuccess(r)
         \/ Count(r)
         \/ UpdateSourceError(r)
         \/ LogScrape(r)

SpecJobs == Init /\ [][NextJobs]_vars

\* ------------------------------------------------ BaseScraper.fetchHTML
\* how axios.get comes out: a 2xx response, or a rejection (no connection,
\* the 30 s timeout, a status outside 2xx)
Responses == {"ok", "network", "timeout", "status"}

\* fetchHTML 29-31: the call up to its await of axios.get.  gets counts the
\* GETs issued, data is what the call has returned
NewFetch(url) ==
    [url |-> url, pc |-> "get", response |-> "none", gets |-> 1,
     slept |-> FALSE, data |-> "none"]

AfterGetNoDelay(F, response) ==
    IF response = "ok"
    THEN [F EXCEPT !.pc = "returned", !.response = response, !.data = F.url]
    ELSE [F EXCEPT !.pc = "threw", !.response = response]

\* fetchHTML 32-53: axios.get settles; a response leads to the sleep, a
\* rejection to the catch, which logs it and throws it again
AfterGet(F, response) ==
    IF response = "ok"
    THEN [F EXCEPT !.pc = "sleep", !.response = response]
    ELSE [F EXCEPT !.pc = "threw", !.response = response]

FetchHTML ==
    /\ Len(fetches) < MaxFetches
    /\ \E url \in Urls : fetches' = Append(fetches, NewFetch(url))
    /\ UNCHANGED <<backendVars, articleData, hashtags, enabled, scrapeJobs,
                   tagStore, handed, articlesTable, page>>

GetSettles(i) ==
    /\ fetches[i].pc = "get"
    /\ \E response \in Responses :
          fetches' = [fetches EXCEPT ![i] = AfterGet(fetches[i], response)]
    /\ UNCHANGED <<backendVars, articleData, hashtags, enabled, scrapeJobs,
                   tagStore, handed, articlesTable, page>>

\* fetchHTML 47-49: the sleep is over, response.data is returned
SleepElapses(i) ==
    /\ fetches[i].pc = "sleep"
    /\ fetches' = [fetches EXCEPT ![i].pc = "returned", ![i].slept = TRUE,
                                  ![i].data = fetches[i].url]
    /\ UNCHANGED <<backendVars, articleData, hashtags, enabled, scrapeJobs,
                   tagStore, handed, articlesTable, page>>

NextFetch ==
    \/ FetchHTML
    \/ \E i \in 1..Len(fetches) : GetSettles(i)
    \/ \E i \in 1..Len(fetches) : SleepElapses(i)

SpecFetch == Init /\ [][NextFetch]_vars

\* ------------------------------------------------ Article.addTags
\* addTags 190-195 with the trigger of part_004 136-146: every row put into
\* article_tags counts the tag once more
LinkAlways(T, articleId, tagName) ==
    [T EXCEPT !.article_tags = @ \cup {<<articleId, tagName>>},
              !.count[tagName] = @ + 1,
              !.inserts[tagName] = @ + 1]

\* addTags 180-195: INSERT INTO tags ... ON CONFLICT (name) DO UPDATE, then
\* INSERT INTO article_tags ... ON CONFLICT DO NOTHING (the primary key is
\* (article_id, tag_id), part_004 60-64); increment_tag_count_trigger
\* (part_004 136-146) runs AFTER INSERT for each row that was inserted
Link(T, articleId, tagName) ==
    LET T1 == [T EXCEPT !.names = @ \cup {tagName},
                        !.inserts[tagName] = @ + 1]
    IN IF <<articleId, tagName>> \in T.article_tags THEN T1
       ELSE [T1 EXCEPT !.article_tags = @ \cup {<<articleId, tagName>>},
                       !.count[tagName] = @ + 1]

\* addTags 179-196: the for loop over tagNames
RECURSIVE LinkAll(_, _, _)
LinkAll(T, articleId, tagNames) ==
    IF tagNames = <<>> THEN T
    ELSE LinkAll(Link(T, articleId, Head(tagNames)), articleId,
                 Tail(tagNames))

TagLists == UNION {[1..n -> TagNames] : n \in 0..MaxTagList}

\* Article.addTags(articleId, tagNames): one transaction, committed as a
\* whole or rolled back when a query rejects
ArticleAddTags ==
    /\ tagStore.calls < MaxAddTags
    /\ \E articleId \in 1..NumArticles, tagNames \in TagLists,
          commit \in BOOLEAN :
          tagStore' = [(IF commit THEN LinkAll(tagStore, articleId, tagNames)
                        ELSE tagStore) EXCEPT !.calls = @ + 1]
    /\ UNCHANGED <<backendVars, articleData, hashtags, enabled, scrapeJobs,
                   fetches, handed, articlesTable, page>>

NextTags == ArticleAddTags

SpecTags == Init /\ [][NextTags]_vars

\* ------------------------------------------------ lengths of title and excerpt
\* Texts are taken by their number of characters.
TitleChars == 500
ExcerptChars == 1000
TweetTitleChars == 100
MinTweetLength == 5
EllipsisLength == 3

\* lengths of upstream texts, around the limits
Lengths == {0, MinTweetLength, MinTitleLength, TweetTitleChars,
            TweetTitleChars + 1, TitleChars, TitleChars + 1, ExcerptChars,
            ExcerptChars + 1}

\* the length of text.substring(0, n) for a text of len characters
SubstringLength(len, n) == IF len > n THEN n ELSE len

\* RSSScraper.processItem 106-108 / CheerioScraper.processArticleElement
\* 139-141: title.substring(0, 500), excerpt.substring(0, 1000);
\* NitterScraper.processTweetElement 120-127: the title is the first 100
\* characters of the content plus '...', the excerpt is the content
Handed(extractor, titleIn, excerptIn) ==
    IF extractor = "nitter"
    THEN [extractor |-> extractor, titleIn |-> titleIn,
          excerptIn |-> excerptIn,
          title |-> IF titleIn > TweetTitleChars
                    THEN TweetTitleChars + EllipsisLength ELSE titleIn,
          excerpt |-> excerptIn]
    ELSE [extractor |-> extractor, titleIn |-> titleIn,
          excerptIn |-> excerptIn,
          title |-> SubstringLength(titleIn, TitleChars),
          excerpt |-> SubstringLength(excerptIn, ExcerptChars)]

\* RSSScraper.processItem: an item that is not stored yet
ProcessFeedItem ==
    /\ \E t, e \in Lengths : handed' = Handed("rss", t, e)
    /\ UNCHANGED <<backendVars, articleData, hashtags, enabled, scrapeJobs,
                   fetches, tagStore, articlesTable, page>>

\* CheerioScraper.processArticleElement: a block that is not stored yet;
\* one with a title of fewer than 10 characters is skipped
ProcessArticleElement ==
    /\ \E t, e \in Lengths :
          /\ t >= MinTitleLength
          /\ handed' = Handed("cheerio", t, e)
    /\ UNCHANGED <<backendVars, articleData, hashtags, enabled, scrapeJobs,
                   fetches, tagStore, articlesTable, page>>

\* NitterScraper.processTweetElement: a tweet that is not stored yet; one
\* with a content of fewer than 5 characters is skipped
ProcessTweetElement ==
    /\ \E c \in Lengths :
          /\ c >= MinTweetLength
          /\ handed' = Handed("nitter", c, c)
    /\ UNCHANGED <<backendVars, articleData, hashtags, enabled, scrapeJobs,
                   fetches, tagStore, articlesTable, page>>

NextHanded == ProcessFeedItem \/ ProcessArticleElement \/ ProcessTweetElement

SpecHanded == Init /\ [][NextHanded]_vars

\* ------------------------------------------------ Article.create, every column
\* the articleData an extractor of source s builds from the item of URL u in
\* its wording v: every field but the URL differs from one observation to
\* another
Observation(s, u, v) ==
    [source_id |-> s, url |-> u,
     title |-> <<"title", s, v>>, excerpt |-> <<"excerpt", s, v>>,
     content |-> <<"content", s, v>>, author |-> <<"author", s, v>>,
     category |-> <<"category", s, v>>,
     content_type |-> <<"content_type", s, v>>,
     platform |-> <<"platform", s, v>>, image_url |-> <<"image_url", s, v>>,
     published_at |-> <<"published_at", s, v>>]

Observations ==
    {Observation(s, u, v) : s \in SourceIds, u \in Urls, v \in 1..NumVersions}

\* the row INSERT ... VALUES puts in: id from the sequence, scraped_at,
\* created_at and updated_at DEFAULT NOW()
NewRow(data, id, t) ==
    [id |-> id, source_id |-> data.source_id, title |-> data.title,
     excerpt |-> data.excerpt, content |-> data.content, url |-> data.url,
     author |-> data.author, category |-> data.category,
     content_type |-> data.content_type, platform |-> data.platform,
     image_url |-> data.image_url, published_at |-> data.published_at,
     scraped_at |-> t, created_at |-> t, updated_at |-> t]

\* (on conflict every column of the INSERT is overwritten)
UpsertEveryColumn(rows, data, id, t) ==
    IF \E row \in rows : row.url = data.url
    THEN {IF row.url = data.url
          THEN [NewRow(data, row.id, t) EXCEPT !.created_at = row.created_at,
                                               !.scraped_at = row.scraped_at]
          ELSE row : row \in rows}
    ELSE rows \cup {NewRow(data, id, t)}

\* Article.create 29-39: INSERT ... ON CONFLICT (url) DO UPDATE SET title,
\* excerpt, content = EXCLUDED's, updated_at = NOW() (which the trigger
\* update_articles_updated_at, part_004 120-134, sets as well)
Upsert(rows, data, id, t) ==
    IF \E row \in rows : row.url = data.url
    THEN {IF row.url = data.url
          THEN [row EXCEPT !.title = data.title, !.excerpt = data.excerpt,
                           !.content = data.content, !.updated_at = t]
          ELSE row : row \in rows}
    ELSE rows \cup {NewRow(data, id, t)}

\* Article.create(articleData); the sequence value is used up also when the
\* INSERT ends in the update
ArticleCreateCall ==
    /\ articlesTable.clock <= MaxCreates
    /\ \E data \in Observations :
          articlesTable' =
              [rows |-> Upsert(articlesTable.rows, data, articlesTable.id,
                               articlesTable.clock),
               id |-> articlesTable.id + 1,
               clock |-> articlesTable.clock + 1,
               last |-> data]
    /\ UNCHANGED <<backendVars, articleData, hashtags, enabled, scrapeJobs,
                   fetches, tagStore, handed, page>>

NextStore == ArticleCreateCall

SpecStore == Init /\ [][NextStore]_vars

\* ------------------------------------------------ front end: startup
maxChecks == 50
PollDelay == 100
BackupDelay == 1000

\* waitForElements() 41-75
waitForElements(P) ==
    LET P1 == [P EXCEPT !.checkCount = @ + 1]
    IN IF P1.elements
       THEN [P1 EXCEPT !.isReady = TRUE, !.inits = @ + 1]
       ELSE IF P1.checkCount < maxChecks
            THEN [P1 EXCEPT !.dueNext = @ + 1]
            ELSE P1

PageUnchanged ==
    UNCHANGED <<backendVars, articleData, hashtags, enabled, scrapeJobs,
                fetches, tagStore, handed, articlesTable>>

\* app.js 510-523: the startup code, with the document still loading or not;
\* the required elements may be there already
Startup ==
    /\ ~page.started
    /\ \E loading, there \in BOOLEAN :
          page' = [page EXCEPT !.started = TRUE, !.elements = there,
                               !.listener = loading,
                               !.dueNext = IF loading THEN 0 ELSE 1,
                               !.backup = TRUE]
    /\ PageUnchanged

\* the required elements become available
ElementsAppear ==
    /\ page.started /\ ~page.elements
    /\ page' = [page EXCEPT !.elements = TRUE]
    /\ PageUnchanged

\* the DOMContentLoaded event: the listener is waitForElements
DOMContentLoaded ==
    /\ page.listener
    /\ page' = waitForElements([page EXCEPT !.listener = FALSE])
    /\ PageUnchanged

\* a setTimeout(waitForElements, 100) timer expires
PollTimer ==
    /\ page.dueNow > 0
    /\ page' = waitForElements([page EXCEPT !.dueNow = @ - 1])
    /\ PageUnchanged

\* app.js 518-523: the backup timer expires
BackupTimer ==
    /\ page.backup /\ page.clock >= BackupDelay
    /\ page' = IF ~page.isReady
               THEN waitForElements([page EXCEPT !.backup = FALSE])
               ELSE [page EXCEPT !.backup = FALSE]
    /\ PageUnchanged

\* 100 ms pass: possible when no pending timer is due
Tick ==
    /\ page.started
    /\ page.dueNow = 0
    /\ ~(page.backup /\ page.clock >= BackupDelay)
    /\ page.backup \/ page.dueNext > 0
    /\ page' = [page EXCEPT !.clock = @ + PollDelay, !.dueNow = page.dueNext,
                            !.dueNext = 0]
    /\ PageUnchanged

NextStartup ==
    \/ Startup
    \/ ElementsAppear
    \/ DOMContentLoaded
    \/ PollTimer
    \/ BackupTimer
    \/ Tick

SpecStartup == Init /\ [][NextStartup]_vars

\* ------------------------------------------------------------ claims
Calls == 1..MaxCalls
Min(S) == CHOOSE x \in S : \A y \in S : x <= y

\* C1: for any interleaving of scrapeAll and scrapeSelected start requests,
\* at most one run is executing its sources at any time.
C1_AtMostOneRunExecuting ==
    Cardinality({c \in Calls : LoopActive(runs[c])}) <= 1

\* C2: a start request made while a run holds the is-running flag is answered
\* "already in progress" and changes nothing: the flag, every other run's
\* record (tallies, details), the sources, the store and the ledger are as
\* before, and the rejected request attempts no source.
C2_BusyChangesNothing ==
    [][(isRunning /\ nextRun' # nextRun) =>
          /\ runs'[nextRun].call = "busy"
          /\ runs'[nextRun].attempted = <<>>
          /\ runs'[nextRun].results = NoResults
          /\ \A c \in Calls \ {nextRun} : runs'[c] = runs[c]
          /\ UNCHANGED <<isRunning, sources, articles, nextId, article_tags,
                         scrape_logs, now>>]_vars

\* C2 witness: a request was answered "already in progress" while the call
\* before it was still awaiting its result
C2_Witness ==
    \E c \in Calls \ {1} :
        runs[c].call = "busy" /\ runs[c - 1].call = "pending"

\* C3: at every point of every run successful + failed <= total, and a run
\* that has returned without timing out has successful + failed = total.
C3_TalliesWithinTotal ==
    \A c \in Calls :
        Started(runs[c]) =>
            /\ runs[c].results.successful + runs[c].results.failed
                  <= runs[c].results.total
            /\ (runs[c].call = "returned" /\ ~runs[c].ret.timedOut) =>
                  runs[c].ret.successful + runs[c].ret.failed
                      = runs[c].ret.total

\* the arguments of the Article.create a loop suspended at "create" awaits
CreateData(R) ==
    ArticleData(CurrentSource(R), CurrentItem(R).url, CurrentItem(R).ver)

\* where the source loop of a run stands
Position(R) == <<R.idx, R.k, R.pc>>

\* the step completes, without rejection, the await of run c at pc
Completes(c, pc) ==
    /\ LoopActive(runs[c]) /\ runs[c].pc = pc
    /\ Position(runs'[c]) # Position(runs[c])
    /\ storeFaults' = storeFaults /\ fetchFails' = fetchFails

\* C4: an Article.create on a URL that is already stored with a differing
\* title/excerpt leaves exactly one row for that URL, with title, excerpt and
\* content of the second observation, the creation timestamp (and id) of the
\* first, and a refreshed last-updated timestamp.
C4_UpsertRefreshesOneRow ==
    [][\A c \in Calls :
          (/\ Completes(c, "create")
           /\ \E old \in RowsFor(articles, CreateData(runs[c]).url) :
                 \/ old.title # CreateData(runs[c]).title
                 \/ old.excerpt # CreateData(runs[c]).excerpt)
          => LET data == CreateData(runs[c])
             IN \A old \in RowsFor(articles, data.url) :
                  /\ RowsFor(articles', data.url) =
                        {[old EXCEPT !.title = data.title,
                                     !.excerpt = data.excerpt,
                                     !.content = data.content,
                                     !.updated_at = now]}
                  /\ now > old.updated_at]_vars

\* C4 witness: a stored row was upserted a second time with another wording
\* than the one of the source that inserted it
C4_Witness ==
    \E row \in articles :
        /\ row.updated_at > row.created_at
        /\ row.title # Title(row.url, row.source_id)
        /\ row.excerpt # Excerpt(row.url, row.source_id)

\* C5: when an extraction pass observes a URL that is already stored with a
\* differing title/excerpt, the store afterwards holds exactly one row for the
\* URL, with the content fields of the new observation and the creation
\* metadata unchanged.
C5_ObservedAgainIsRefreshed ==
    [][\A c \in Calls :
          (/\ Completes(c, "find")
           /\ \E old \in RowsFor(articles, CreateData(runs[c]).url) :
                 \/ old.title # CreateData(runs[c]).title
                 \/ old.excerpt # CreateData(runs[c]).excerpt)
          => LET data == CreateData(runs[c])
             IN \A old \in RowsFor(articles, data.url) :
                  \E new \in articles' :
                      /\ RowsFor(articles', data.url) = {new}
                      /\ new.title = data.title
                      /\ new.excerpt = data.excerpt
                      /\ new.content = data.content
                      /\ new.created_at = old.created_at
                      /\ new.id = old.id]_vars

\* the runs whose Article.create for URL u resolved, and when
Creators(u) == {c \in Calls : \E p \in runs[c].created : p[1] = u}
CreateTimes(u) ==
    {p[2] : p \in {q \in UNION {runs[c].created : c \in Calls} : q[1] = u}}

\* C6: when two scrape executions both pass the find-by-URL check for the same
\* new URL and both call Article.create, the store holds exactly one row for
\* that URL and the row keeps the creation timestamp of the first insert.
C6_RaceKeepsFirstInsert ==
    \A u \in Urls :
        Cardinality(Creators(u)) >= 2 =>
            /\ Cardinality(RowsFor(articles, u)) = 1
            /\ \A row \in RowsFor(articles, u) :
                  row.created_at = Min(CreateTimes(u))

\* C6 witness: two runs have each had their Article.create of one URL resolve
C6_Witness == \E u \in Urls : Cardinality(Creators(u)) >= 2

\* the sources with a scraper among the ids of a run
SourcesOf(R) == {R.ids[i] : i \in DOMAIN R.ids} \cap SourceIds
Attempted(R) == {R.attempted[i] : i \in DOMAIN R.attempted}

\* call c - 1 has returned a complete result and call c runs the same sources
InSequence(c) ==
    /\ runs[c - 1].call = "returned" /\ ~runs[c - 1].ret.timedOut
    /\ Started(runs[c])
    /\ SourcesOf(runs[c]) = SourcesOf(runs[c - 1])

\* the run finds nothing new: it inserts no row and counts no article
NothingNew(R) ==
    /\ R.created = {}
    /\ R.found = 0
    /\ R.results.articles = 0
    /\ \A i \in DOMAIN R.results.details : R.results.details[i].articles = 0

StoredAllItSaw(R) == R.fetched = SourcesOf(R) /\ R.unsaved = {}

C8_TimeoutReturnsPartialResult ==
    [][\A c \in Calls :
          (~runs[c].timerFired /\ runs'[c].timerFired) =>
              /\ runs'[c].call = "returned"
              /\ runs'[c].ret.success
              /\ runs'[c].ret.timedOut
              /\ Len(runs'[c].results.details) < runs'[c].ret.total]_vars

\* C8 witness: a timer expired after the first source of its run had been
\* recorded and while the loop was still working
C8_Witness ==
    \E c \in Calls :
        /\ runs[c].timerFired /\ runs[c].ret.timedOut
        /\ LoopActive(runs[c])
        /\ Len(runs[c].results.details) >= 1

\* C9: in scrapeSelected with maxArticles = N, once the cumulative article
\* count is >= N no further source is attempted: the list of attempted
\* sources and the tallies of successful sources and of articles stay as
\* they are.
C9_CapStopsTheLoop ==
    [][\A c \in Calls :
          (/\ Started(runs[c]) /\ runs[c].maxArticles # 0
           /\ runs[c].results.articles >= runs[c].maxArticles)
          => /\ runs'[c].attempted = runs[c].attempted
             /\ runs'[c].results.successful = runs[c].results.successful
             /\ runs'[c].results.articles = runs[c].results.articles]_vars

\* C10: if a source's extractor throws during a run, the run records it - the
\* source's error counter is incremented, failed is incremented, a detail
\* entry with status error and the error text is added - and goes on to
\* attempt every remaining source.
C10_ExtractorFailureIsRecorded ==
    \A c \in Calls :
        (Started(runs[c]) /\ ~LoopActive(runs[c])) =>
            \A s \in runs[c].threw :
                /\ \E i \in DOMAIN runs[c].results.details :
                      /\ runs[c].results.details[i].source = s
                      /\ runs[c].results.details[i].status = "error"
                      /\ runs[c].results.details[i].error = "fetch"
                /\ runs[c].results.failed >= 1
                /\ sources[s].error_count >= 1
                /\ sources[s].last_error = "fetch"
                /\ SourcesOf(runs[c]) \subseteq Attempted(runs[c])

\* C11: scrapeAll and scrapeSelected never propagate an exception to their
\* caller: no call ends by throwing.
C11_NoCallThrows == \A c \in Calls : runs[c].call # "threw"

\* the ids of a run for which a scraper exists, in the order given
Listed(R) == SelectSeq(R.ids, LAMBDA id : id \in SourceIds)

\* C12: within one run the sources are attempted in listing order and one at
\* a time: the sources attempted so far are a prefix of the listed ones, each
\* detail entry is that of the source attempted at its position, and a source
\* is attempted only when every source attempted before it has been finished
\* (so at most the latest attempt has no detail entry yet).
C12_InOrderOneAtATime ==
    \A c \in Calls :
        Started(runs[c]) =>
            LET R == runs[c]
                n == Len(R.attempted)
                m == Len(R.results.details)
            IN /\ n <= Len(Listed(R))
               /\ R.attempted = SubSeq(Listed(R), 1, n)
               /\ m <= n /\ n <= m + 1
               /\ \A i \in 1..m : R.results.details[i].source = R.attempted[i]
               /\ (LoopActive(R) /\ n > 0) => CurrentSource(R) = R.attempted[n]
               /\ R.fetched \cup R.threw \subseteq Attempted(R)

\* C12 witness: a run over two sources has recorded both, in the order given,
\* which is not the registration order
C12_Witness ==
    \E c \in Calls :
        /\ runs[c].ids = <<2, 1>>
        /\ Len(runs[c].results.details) = 2
        /\ runs[c].results.details[1].source = 2
        /\ runs[c].results.details[2].source = 1

\* C13: every upstream fetch made by an extractor goes through fetchHTML and
\* is followed by its delay before the extractor continues.
C13_EveryFetchIsDelayed ==
    \A c \in Calls : runs[c].fetched \subseteq runs[c].delayed

\* how the extractor of a run over one source came out
AttemptOutcome(R) ==
    IF R.threw # {} THEN "failed"
    ELSE IF R.fetched = {} THEN "none"
    ELSE IF R.articlesFound > 0 THEN "found" ELSE "zero"

\* the call has been made and its work has ended
Ended(R) == Started(R) /\ ~LoopActive(R)

\* C14: for every source and every extractor outcome, scrapeSingle(s) updates
\* the same bookkeeping columns of the source as scrapeSelected([s]) does on
\* an attempt with the same outcome (no store operation having failed).
C14_SingleSameBookkeeping ==
    \A c1, c2 \in Calls :
        (/\ runs[c1].kind = "single" /\ runs[c2].kind = "selected"
         /\ Ended(runs[c1]) /\ Ended(runs[c2])
         /\ runs[c1].ids = runs[c2].ids
         /\ AttemptOutcome(runs[c1]) # "none"
         /\ AttemptOutcome(runs[c1]) = AttemptOutcome(runs[c2])
         /\ storeFaults = 0)
        => runs[c1].marks = runs[c2].marks

\* categorizeArticle's rules in their order of precedence
Precedence ==
    <<[category |-> "weather", terms |-> WeatherTerms],
      [category |-> "politics", terms |-> PoliticsTerms],
      [category |-> "sports", terms |-> SportsTerms],
      [category |-> "education", terms |-> EducationTerms],
      [category |-> "tourism", terms |-> TourismTerms],
      [category |-> "development", terms |-> DevelopmentTerms]>>

\* the rules of which some term occurs in the lower-cased title + excerpt
Matching(title, excerpt) ==
    {i \in DOMAIN Precedence :
        Test(Precedence[i].terms, ToLowerCase(title \o <<" ">> \o excerpt))}

\* C15: the category of an item is the one of the first rule, in the order
\* weather, politics, sports, education, tourism, development, of which a
\* term occurs in its title or excerpt, and local if there is none; an item
\* with a weather term and a sports term is classified weather.
C15_FirstMatchWins ==
    articleData.category # "none" =>
        LET M == Matching(articleData.title, articleData.excerpt)
        IN /\ articleData.category =
                 IF M = {} THEN "local" ELSE Precedence[Min(M)].category
           /\ articleData.category =
                 categorizeArticle(articleData.title, articleData.excerpt)
           /\ ({1, 3} \subseteq M) => articleData.category = "weather"

\* C15 witness: an item whose title has a sports term and whose excerpt has a
\* weather term has been classified weather
C15_Witness ==
    /\ articleData.category = "weather"
    /\ Test(SportsTerms, ToLowerCase(articleData.title))
    /\ ~Test(WeatherTerms, ToLowerCase(articleData.title))
    /\ Test(WeatherTerms, ToLowerCase(articleData.excerpt))

\* the block has no title or one shorter than 10 characters, or no link
Defective(b) == b.titleLen < MinTitleLength \/ ~b.hasLink

\* the defective blocks of source s's page, and the URLs of the other blocks
DefectiveBlocks(s) ==
    {Document(s)[i] : i \in {j \in DOMAIN Document(s) :
                                Defective(Document(s)[j])}}
SoundUrls(s) ==
    {Document(s)[i].url : i \in {j \in DOMAIN Document(s) :
                                    ~Defective(Document(s)[j])}}

\* the run is past the scrape() of the source it is at
ScrapeReturned(R) ==
    CurrentSource(R) \in R.fetched /\ R.pc \notin {"find", "create", "tags"}

\* C16: a page block whose title is absent or shorter than 10 characters, or
\* whose link is absent, is skipped: no row is stored for it, it is not
\* looked up or saved, it adds nothing to the article count of its source,
\* and the other blocks of the page are processed (once scrape() has
\* returned without a rejected store operation each of them is stored).
C16_InvalidBlocksSkipped ==
    \A c \in Calls :
        (LoopActive(runs[c]) /\ ScraperType(CurrentSource(runs[c])) = "cheerio")
        => LET R == runs[c]
               s == CurrentSource(R)
           IN /\ \A b \in DefectiveBlocks(s) : ~FindByUrl(articles, b.url)
              /\ R.pc \in {"find", "create", "tags"} =>
                    ~Defective(CurrentItem(R))
              /\ R.found <= Cardinality({i \in DOMAIN R.items :
                                            i < R.k /\ ~Defective(R.items[i])})
              /\ (ScrapeReturned(R) /\ R.unsaved = {}) =>
                    /\ \A u \in SoundUrls(s) : FindByUrl(articles, u)
                    /\ R.articlesFound <= Cardinality(SoundUrls(s))

\* C16 witness: the scrape() of a page has returned two articles, the second
\* of them from the block that follows the blocks without title and without
\* link
C16_Witness ==
    \E c \in Calls :
        /\ LoopActive(runs[c])
        /\ ScraperType(CurrentSource(runs[c])) = "cheerio"
        /\ ScrapeReturned(runs[c])
        /\ runs[c].articlesFound = 2
        /\ \E row \in articles : row.url = "b" /\ row.source_id = CurrentSource(runs[c])

\* C17: after any sequence of add-hashtag and remove-hashtag actions the
\* tracked list holds no two equal entries and every entry begins with '#'.
C17_HashtagsDistinctWithHash ==
    /\ \A i \in DOMAIN hashtags : hashtags[i] # <<>> /\ Head(hashtags[i]) = "#"
    /\ \A i, j \in DOMAIN hashtags : hashtags[i] = hashtags[j] => i = j

\* C18: scrapeSingle is single-flight like any other run: while a
\* scrapeSingle is executing its source no other run is executing, whichever
\* of the two started first.
C18_SingleIsSingleFlight ==
    \A c1, c2 \in Calls :
        (c1 # c2 /\ runs[c1].kind = "single" /\ LoopActive(runs[c1]))
        => ~LoopActive(runs[c2])

\* the number of source attempts made by the calls 1..c
RECURSIVE AttemptsUpTo(_)
AttemptsUpTo(c) ==
    IF c = 0 THEN 0 ELSE AttemptsUpTo(c - 1) + Len(runs[c].attempted)

\* C19: each source attempt of scrapeAll / scrapeSelected - successful,
\* failed, or the one that reaches the max-articles cap - appends one detail
\* entry to its run and one row to scrape_logs: a run whose loop has ended
\* has as many detail entries as attempts, and once every loop has ended
\* scrape_logs has one row per attempt.
C19_OneRecordPerAttempt ==
    /\ \A c \in Calls :
          (Started(runs[c]) /\ runs[c].pc = "done") =>
              Len(runs[c].results.details) = Len(runs[c].attempted)
    /\ (\A c \in Calls : runs[c].pc \in {"idle", "done"}) =>
          Len(scrape_logs) = AttemptsUpTo(MaxCalls)

\* C20: after every source attempt of scrapeAll / scrapeSelected the
\* source's last_scraped has been updated; if the attempt succeeded (with or
\* without new articles) last_successful_scrape and scrape_count have been
\* updated; if it failed error_count and last_error have been updated and
\* last_successful_scrape and scrape_count have not (no store operation
\* having been rejected).
C20_BookkeepingAfterAttempt ==
    \A c \in Calls :
        (Started(runs[c]) /\ storeFaults = 0) =>
            \A i \in DOMAIN runs[c].results.details :
                LET d == runs[c].results.details[i]
                    s == d.source
                    marks == runs[c].marks
                IN /\ <<s, "last_scraped">> \in marks
                   /\ d.status = "success" =>
                         /\ <<s, "last_successful_scrape">> \in marks
                         /\ <<s, "scrape_count">> \in marks
                   /\ d.status = "error" =>
                         /\ <<s, "error_count">> \in marks
                         /\ <<s, "last_successful_scrape">> \notin marks
                         /\ <<s, "scrape_count">> \notin marks

\* C21: scrapeAll attempts only enabled sources: when a scrapeAll call
\* starts, its total is the number of enabled sources and the source it
\* begins with is an enabled one.
C21_RunAllOnlyEnabled ==
    [][(/\ nextRun' # nextRun
        /\ runs'[nextRun].kind = "all"
        /\ Started(runs'[nextRun]))
       => /\ runs'[nextRun].results.total = Cardinality(enabled)
          /\ Attempted(runs'[nextRun]) \subseteq enabled]_vars

\* C22: when the timer of a scrapeSelected call expires, the result handed
\* to the caller carries the tallies accumulated so far, and the detail
\* entries recorded so far are all still in the details list.
C22_TimeoutKeepsWhatWasRecorded ==
    [][\A c \in Calls :
          (~runs[c].timerFired /\ runs'[c].timerFired) =>
              /\ runs'[c].ret.total = runs[c].results.total
              /\ runs'[c].ret.successful = runs[c].results.successful
              /\ runs'[c].ret.failed = runs[c].results.failed
              /\ runs'[c].ret.articles = runs[c].results.articles
              /\ runs'[c].results.details = runs[c].results.details]_vars

\* C22 witness: a call has returned timed out with a successful source and
\* its articles in the tallies it returned
C22_Witness ==
    \E c \in Calls :
        /\ runs[c].timerFired
        /\ runs[c].call = "returned"
        /\ runs[c].ret.timedOut
        /\ runs[c].ret.successful >= 1
        /\ runs[c].ret.articles >= 1
        /\ Len(runs[c].results.details) >= 1

\* C23: a job is created with status running, leaves it at most once, for
\* completed or error, and a finalized job keeps its status.
C23_JobStatusChangesOnce ==
    [][/\ Len(scrapeJobs') >= Len(scrapeJobs)
       /\ \A j \in 1..Len(scrapeJobs') :
             IF j > Len(scrapeJobs)
             THEN /\ scrapeJobs'[j].status = "running"
                  /\ scrapeJobs'[j].call = nextRun
                  /\ nextRun' = nextRun + 1
             ELSE \/ scrapeJobs'[j].status = scrapeJobs[j].status
                  \/ /\ scrapeJobs[j].status = "running"
                     /\ scrapeJobs'[j].status \in {"completed", "error"}]_vars

\* C23 witness: one job has been finalized as completed after its run
\* recorded a source, another one as error
C23_Witness ==
    \E j, k \in 1..Len(scrapeJobs) :
        /\ scrapeJobs[j].status = "completed"
        /\ Len(runs[scrapeJobs[j].call].results.details) >= 1
        /\ scrapeJobs[k].status = "error"

\* C24: while a job is running, its completed-source count and its article
\* count are those of its run so far.
C24_ProgressFollowsTheRun ==
    \A j \in 1..Len(scrapeJobs) :
        scrapeJobs[j].status = "running" =>
            /\ scrapeJobs[j].completed
                   = Len(runs[scrapeJobs[j].call].results.details)
            /\ scrapeJobs[j].articles
                   = runs[scrapeJobs[j].call].results.articles

Remaining(R) ==
    {i \in (R.k + 1)..Len(R.items) :
        ScraperType(CurrentSource(R)) = "cheerio" => ~Defective(R.items[i])}

\* C26: when the processing of an item fails, the source is not counted as
\* failed and the extractor goes on with the next item it has to process;
\* when the fetch of the feed or page fails, no item of the source is
\* processed and the source is counted as failed.
C26_ItemFailureIsLocal ==
    [][\A c \in Calls :
          LET R == runs[c]
              Q == runs'[c]
          IN /\ Q.unsaved # R.unsaved =>
                  /\ Q.results.failed = R.results.failed
                  /\ Q.threw = R.threw
                  /\ Q.items = R.items
                  /\ IF Remaining(R) = {} THEN Q.status = "success"
                     ELSE /\ Q.pc = "find"
                          /\ Q.k = Min(Remaining(R))
             /\ Q.threw # R.threw =>
                  /\ Q.threw = R.threw \cup {CurrentSource(R)}
                  /\ Q.results.failed = R.results.failed + 1
                  /\ Q.status = "error"
                  /\ Q.items = <<>>
                  /\ Q.created = R.created /\ Q.unsaved = R.unsaved]_vars

\* C26 witness: in one run the fetch of the first source failed, and in the
\* second source an item was dropped and a later item was stored
C26_Witness ==
    \E c \in Calls :
        /\ runs[c].threw = {1}
        /\ runs[c].unsaved = {"a"}
        /\ \E t \in 1..10 : <<"b", t>> \in runs[c].created

\* C27: the count of every tag is the number of its (article, tag)
\* associations: each new association has counted once, a repeated one not.
C27_CountIsNumberOfAssociations ==
    \A t \in TagNames :
        tagStore.count[t] =
            Cardinality({l \in tagStore.article_tags : l[2] = t})

\* C27 witness: a tag is associated with two articles and has been added
\* more often than that
C27_Witness ==
    \E t \in TagNames :
        /\ tagStore.count[t] = 2
        /\ tagStore.inserts[t] > 2

\* C28: every articleData handed to saveArticle, by any extractor, has a
\* title of at most 500 characters and an excerpt of at most 1000.
C28_TitleAndExcerptCapped ==
    handed.extractor # "none" =>
        handed.title <= TitleChars /\ handed.excerpt <= ExcerptChars

\* C29: a run that has ended has cleared the is-running flag: whenever no
\* call is awaited by its caller and no source loop is working, isRunning
\* is false.
C29_FlagClearedWhenRunsEnded ==
    (\A c \in Calls : runs[c].call # "pending" /\ ~LoopActive(runs[c]))
        => ~isRunning

\* C30: once the timer of a call has expired and the call has returned, its
\* run attempts no further source, writes nothing more to the sources,
\* articles, article_tags and scrape_logs tables, and the tallies of the
\* object it returned and its details list (the details array of the run)
\* stay as they are.
C30_NothingAfterTimedOutReturn ==
    [][\A c \in Calls :
          (runs[c].timerFired /\ runs'[c] # runs[c]) =>
              /\ runs'[c].attempted = runs[c].attempted
              /\ runs'[c].ret = runs[c].ret
              /\ runs'[c].results.details = runs[c].results.details
              /\ sources' = sources
              /\ articles' = articles
              /\ article_tags' = article_tags
              /\ scrape_logs' = scrape_logs]_vars

\* C31: a scrapeSelected call reports timedOut = true only if its timer has
\* expired.
C31_TimedOutOnlyAfterTimer ==
    \A c \in Calls : runs[c].ret.timedOut => runs[c].timerFired

\* the detail entries of status st in a details list, and the sum of the
\* article counts of its entries
WithStatus(details, st) ==
    Cardinality({i \in DOMAIN details : details[i].status = st})
RECURSIVE SumArticles(_)
SumArticles(details) ==
    IF details = <<>> THEN 0
    ELSE Head(details).articles + SumArticles(Tail(details))

\* C32: in the result of every scrapeAll or scrapeSelected call that has
\* returned and whose source loop has ended (no store operation having
\* failed), successful is the number of detail entries of status success,
\* failed the number of those of status error, and articles the sum of the
\* entries' article counts.
C32_TalliesMatchDetails ==
    \A c \in Calls :
        (/\ runs[c].kind \in {"all", "selected"}
         /\ runs[c].call = "returned"
         /\ ~LoopActive(runs[c])
         /\ ~runs[c].timerFired
         /\ storeFaults = 0) =>
            /\ runs[c].ret.successful
                  = WithStatus(runs[c].results.details, "success")
            /\ runs[c].ret.failed
                  = WithStatus(runs[c].results.details, "error")
            /\ runs[c].ret.articles = SumArticles(runs[c].results.details)

\* C33: at most one job has status running at any time.
C33_AtMostOneRunningJob ==
    Cardinality({j \in 1..Len(scrapeJobs) :
                    scrapeJobs[j].status = "running"}) <= 1

\* C34: a job is completed only if the ScraperManager executed its run: a
\* job whose call was answered "already in progress" is not completed.
C34_CompletedJobWasExecuted ==
    \A j \in 1..Len(scrapeJobs) :
        scrapeJobs[j].status = "completed" =>
            runs[scrapeJobs[j].call].call # "busy"

\* a run is between the Article.create and the Article.addTags of the
\* saveArticle for URL u
Saving(u) ==
    \E c \in Calls :
        /\ LoopActive(runs[c])
        /\ runs[c].pc = "tags"
        /\ CurrentItem(runs[c]).url = u

\* C35: outside a saveArticle in progress, every stored article whose item
\* has tags has all of its tag associations stored.
C35_ArticleStoredWithItsTags ==
    \A row \in articles :
        ~Saving(row.url) =>
            \A t \in Tags(row.url) : <<row.id, t>> \in article_tags

\* the article rows of source s that run R has inserted
InsertedBy(R, s) ==
    {row \in articles : /\ row.source_id = s
                        /\ <<row.url, row.created_at>> \in R.created}

\* C36: for a call made with no other scrape in progress, whose source loop
\* has ended: the article count of every detail entry is the number of rows
\* the run inserted for that source, and the aggregate count is the number
\* of rows the run inserted.
C36_CountIsRowsInserted ==
    (nextRun = 2 /\ runs[1].kind \in {"all", "selected"} /\ Ended(runs[1]))
        => /\ \A i \in DOMAIN runs[1].results.details :
                 runs[1].results.details[i].articles =
                     Cardinality(InsertedBy(runs[1],
                                            runs[1].results.details[i].source))
           /\ runs[1].results.articles =
                 Cardinality(UNION {InsertedBy(runs[1], s) : s \in SourceIds})

\* C37: when Article.create hits a stored URL, the row of that URL changes
\* in title, excerpt, content and updated_at only (they become those of the
\* new articleData and the time of the call), every other column keeps its
\* value, and every other row stays as it is.
C37_UpsertChangesFourColumns ==
    [][\A old \in articlesTable.rows :
          LET data == articlesTable'.last
          IN IF old.url # data.url THEN old \in articlesTable'.rows
             ELSE \E new \in articlesTable'.rows :
                    /\ \A row \in articlesTable'.rows :
                          row.url = old.url => row = new
                    /\ new.title = data.title
                    /\ new.excerpt = data.excerpt
                    /\ new.content = data.content
                    /\ new.updated_at = articlesTable.clock
                    /\ new.id = old.id
                    /\ new.source_id = old.source_id
                    /\ new.author = old.author
                    /\ new.category = old.category
                    /\ new.content_type = old.content_type
                    /\ new.platform = old.platform
                    /\ new.image_url = old.image_url
                    /\ new.published_at = old.published_at
                    /\ new.scraped_at = old.scraped_at
                    /\ new.created_at = old.created_at
                    /\ Cardinality(articlesTable'.rows)
                          = Cardinality(articlesTable.rows)]_vars

\* C37 witness: next to another row, a row has been updated by an
\* articleData other than the one that inserted it
C37_Witness ==
    \E row, other \in articlesTable.rows :
        /\ other.url # row.url
        /\ row.updated_at > row.created_at
        /\ row.title # <<"title", row.author[2], row.author[3]>>
        /\ articlesTable.last.url = row.url
        /\ articlesTable.last.author # row.author

\* C38: initializeApp is invoked at most once per page load.
C38_InitializedAtMostOnce == page.inits <= 1

====
